---- MODULE Spec2Model ----
(***************************************************************************)
(* A model of the ePIE ptychography solver (tike/ptycho/solvers/epie.py)   *)
(* and of the probe orthogonalisation routines (tike/ptycho/probe.py).     *)
(*                                                                         *)
(* Numbers are exact complex rationals; a value with denominator 0 stands  *)
(* for a non-finite IEEE result (inf or nan), which absorbs every later    *)
(* operation the modelled code applies to it.                              *)
(***************************************************************************)
EXTENDS Integers, Sequences, FiniteSets, TLC

(***************************************************************************)
(* Bounds of the model.                                                    *)
(***************************************************************************)
NumWorkers == 2
NumModes == 2
NumBatch == 2
MaxShard == 2
NumPixels == 2
NumNodes == 2

Workers == 1..NumWorkers
Modes == 1..NumModes
Pixels == 1..NumPixels

(***************************************************************************)
(* complex64 arithmetic, exact.                                            *)
(***************************************************************************)
Abs(n) == IF n < 0 THEN -n ELSE n

RECURSIVE GCD(_, _)
GCD(a, b) == IF b = 0 THEN a ELSE GCD(b, a % b)

NaN == [re |-> 0, im |-> 0, d |-> 0]

Finite(x) == x.d # 0

Cx(re, im, d) ==
    IF d = 0 THEN NaN
    ELSE LET s == IF d < 0 THEN -1 ELSE 1
             g == GCD(GCD(Abs(re), Abs(im)), Abs(d))
         IN [re |-> (s * re) \div g, im |-> (s * im) \div g, d |-> (s * d) \div g]

Zero == Cx(0, 0, 1)
One == Cx(1, 0, 1)
Two == Cx(2, 0, 1)
Imag == Cx(0, 1, 1)

IsZero(x) == Finite(x) /\ x.re = 0 /\ x.im = 0

\* Both sums and products are reduced before they are formed, to keep the
\* integers of the representation small.
CAdd(x, y) ==
    IF ~Finite(x) \/ ~Finite(y) THEN NaN
    ELSE LET g == GCD(x.d, y.d)
             a == y.d \div g
             b == x.d \div g
         IN Cx(x.re * a + y.re * b, x.im * a + y.im * b, x.d * a)

CNeg(x) == IF Finite(x) THEN [x EXCEPT !.re = -x.re, !.im = -x.im] ELSE NaN

CSub(x, y) == CAdd(x, CNeg(y))

CMul(x, y) ==
    IF ~Finite(x) \/ ~Finite(y) THEN NaN
    ELSE LET g == GCD(GCD(Abs(x.re), Abs(x.im)), y.d)
             h == GCD(GCD(Abs(y.re), Abs(y.im)), x.d)
             xr == x.re \div g
             xi == x.im \div g
             yr == y.re \div h
             yi == y.im \div h
         IN Cx(xr * yr - xi * yi, xr * yi + xi * yr, (x.d \div h) * (y.d \div g))

CConj(x) == IF Finite(x) THEN [x EXCEPT !.im = -x.im] ELSE NaN

\* x / y in IEEE arithmetic: a zero divisor gives inf or nan, never an exception.
CDiv(x, y) ==
    IF ~Finite(x) \/ ~Finite(y) \/ IsZero(y) THEN NaN
    ELSE CMul(x, Cx(y.re * y.d, -(y.im * y.d), y.re * y.re + y.im * y.im))

\* Sum of f[j] over the indices j of the finite set S.
RECURSIVE CSum(_, _)
CSum(f, S) ==
    IF S = {} THEN Zero
    ELSE LET j == CHOOSE e \in S : TRUE IN CAdd(f[j], CSum(f, S \ {j}))

RECURSIVE ISum(_, _)
ISum(f, S) ==
    IF S = {} THEN 0
    ELSE LET j == CHOOSE e \in S : TRUE IN f[j] + ISum(f, S \ {j})

\* (x * x.conj()).real.max(axis=(-1, -2)) of a one-pixel array
max_amplitude(x) == CMul(x, CConj(x))

(***************************************************************************)
(* orthogonalize_gs(x, ndim) on an array of GsModes rows of GsLen entries. *)
(***************************************************************************)
GsModes == 3
GsLen == 2
TolInv == 100000

VARIABLES gx, gndim, gdebug, gi, gpc, gerr

gsVars == <<gx, gndim, gdebug, gi, gpc, gerr>>

GsVals == {Zero, One, Imag}

\* inner(x, y, axis=-1): sum of conj(x) * y
inner(x, y) == CSum([c \in DOMAIN x |-> CMul(CConj(x[c]), y[c])], DOMAIN x)

\* abs(z) < 1e-5; every comparison with nan is false
BelowTol(z) ==
    /\ Finite(z)
    /\ LET a == z.re * z.re + z.im * z.im
       IN a <= ((z.d * z.d - 1) \div TolInv) \div TolInv

\* u * inner(u, v) / inner(u, u) for one row u
projection(u, v) ==
    [c \in DOMAIN u |-> CDiv(CMul(u[c], inner(u, v)), inner(u, u))]

\* x_ortho[..., i:i + 1, :] -= np.sum(projections, axis=-2)
gs_step(x, i) ==
    [x EXCEPT ![i] =
        [c \in DOMAIN x[i] |->
            CSub(x[i][c],
                 CSum([t \in 1..(i - 1) |-> projection(x[t], x[i])[c]], 1..(i - 1)))]]

\* the pairwise test under __debug__
gs_orthogonal(x) ==
    \A i \in DOMAIN x : \A j \in 1..(i - 1) : BelowTol(inner(x[i], x[j]))

gsInit ==
    /\ gx \in [1..GsModes -> [1..GsLen -> GsVals]]
    /\ gndim \in {0, 1}
    /\ gdebug \in BOOLEAN
    /\ gi = 2
    /\ gpc = "check_ndim"
    /\ gerr = "none"

gsIdle ==
    /\ gx = <<>>
    /\ gndim = 0
    /\ gdebug = FALSE
    /\ gi = 0
    /\ gpc = "idle"
    /\ gerr = "none"

(***************************************************************************)
(* orthogonalize_eig(x) on EigModes modes of EigLen pixels.                *)
(***************************************************************************)
EigModes == 2
EigPixels == {1, 2}

VARIABLES ex, eA, evalues, vectors, x_new, ei, ej, epc

eigVars == <<ex, eA, evalues, vectors, x_new, ei, ej, epc>>

EigVals == {Zero, One, Imag}
EigEntries == {Zero, One, CNeg(One), Imag, CNeg(Imag)}

\* cp.sum(cp.conj(x[..., i, :, :]) * x[..., j, :, :], axis=(-1, -2))
gram_entry(x, i, j) ==
    CSum([p \in DOMAIN x[i] |-> CMul(CConj(x[i][p]), x[j][p])], DOMAIN x[i])

\* The loop of lines 98-101: only the lower half of A is filled.
gram(x) ==
    [i \in DOMAIN x |-> [j \in 1..i |-> gram_entry(x, i, j)]]

\* The Hermitian matrix that eigh(A, UPLO='L') reads out of the lower half.
Hermitian(A) ==
    [i \in DOMAIN A |-> [j \in DOMAIN A |->
        IF j <= i THEN A[i][j] ELSE CConj(A[j][i])]]

MatVec(H, v) ==
    [i \in DOMAIN H |-> CSum([j \in DOMAIN H |-> CMul(H[i][j], v[j])], DOMAIN H)]

VDot(u, v) ==
    CSum([i \in DOMAIN u |-> CMul(CConj(u[i]), v[i])], DOMAIN u)

\* v^H H v / v^H v, the eigenvalue of an eigenvector v
Rayleigh(H, v) == CDiv(VDot(v, MatVec(H, v)), VDot(v, v))

IsEigenvector(H, v) ==
    LET lam == Rayleigh(H, v)
    IN /\ Finite(lam)
       /\ lam.im = 0
       /\ MatVec(H, v) = [i \in DOMAIN H |-> CMul(lam, v[i])]

\* a <= b for real rationals
RLeq(a, b) == a.re * b.d <= b.re * a.d

\* Candidate eigenvectors: entries in EigEntries, the first non-zero entry
\* real.  The orthonormal eigenvectors of eigh are held up to one common
\* positive factor, the square root of v^H v.
EigCandidates(nmodes) ==
    {v \in [1..nmodes -> EigEntries] :
        \E i \in 1..nmodes :
            /\ v[i] \in {One, CNeg(One)}
            /\ \A j \in 1..(i - 1) : v[j] = Zero}

\* The sequences of nmodes candidates of ev, each with its eigenvalue lam and
\* squared norm pw, that are pairwise orthogonal, of one norm, and in
\* ascending order of eigenvalue.
RECURSIVE EigBases(_, _, _)
EigBases(nmodes, ev, cols) ==
    IF Len(cols) = nmodes THEN {cols}
    ELSE UNION {EigBases(nmodes, ev, Append(cols, c)) :
            c \in {c \in ev :
                    /\ \A t \in 1..Len(cols) :
                          /\ IsZero(VDot(cols[t].v, c.v))
                          /\ cols[t].pw = c.pw
                    /\ Len(cols) > 0 => RLeq(cols[Len(cols)].lam, c.lam)}}

\* cp.linalg.eigh(A, UPLO='L'): eigenvalues in ascending order and the
\* matrix whose column j is the eigenvector of eigenvalue j.
eigh(A) ==
    LET H == Hermitian(A)
        ev == {[v |-> c, lam |-> Rayleigh(H, c), pw |-> VDot(c, c)] :
                  c \in {c \in EigCandidates(Len(A)) : IsEigenvector(H, c)}}
    IN {[values |-> [j \in DOMAIN A |-> cols[j].lam],
         vectors |-> [i \in DOMAIN A |-> [j \in DOMAIN A |-> cols[j].v[i]]]] :
            cols \in EigBases(Len(A), ev, <<>>)}

\* the index nmodes - 1 - j of the mode that column j is added to
TargetModeSame(nmodes, j) == j
TargetMode(nmodes, j) == nmodes + 1 - j

\* x_new[..., nmodes - 1 - j, :, :] += vectors[..., i, j, None, None] * x[..., i, :, :]
accumulate(xn, vecs, x, i, j) ==
    LET t == TargetMode(Len(x), j)
    IN [xn EXCEPT ![t] =
          [p \in DOMAIN x[i] |-> CAdd(xn[t][p], CMul(vecs[i][j], x[i][p]))]]

\* cp.zeros_like(x)
zeros_like(x) == [k \in DOMAIN x |-> [p \in DOMAIN x[k] |-> Zero]]

\* The double loop of lines 110-114 from the pass (i, j) on.
RECURSIVE accumulate_from(_, _, _, _, _)
accumulate_from(xn, vecs, x, i, j) ==
    IF i > Len(x) THEN xn
    ELSE IF j > Len(x) THEN accumulate_from(xn, vecs, x, i + 1, 1)
    ELSE accumulate_from(accumulate(xn, vecs, x, i, j), vecs, x, i, j + 1)

\* orthogonalize_eig(x), for each basis eigh can return
orthogonalize_eig(x) ==
    {accumulate_from(zeros_like(x), dec.vectors, x, 1, 1) : dec \in eigh(gram(x))}

eigInit ==
    /\ ex \in [1..EigModes -> [EigPixels -> EigVals]]
    /\ eigh(gram(ex)) # {}
    /\ eA = <<>>
    /\ evalues = <<>>
    /\ vectors = <<>>
    /\ x_new = <<>>
    /\ ei = 0
    /\ ej = 0
    /\ epc = "gram"

eigIdle ==
    /\ ex = <<>>
    /\ eA = <<>>
    /\ evalues = <<>>
    /\ vectors = <<>>
    /\ x_new = <<>>
    /\ ei = 0
    /\ ej = 0
    /\ epc = "idle"

(***************************************************************************)
(* The optical operator `op` with a one-pixel detector and patch           *)
(* (detector_shape = 1, pad = 0, end = 1): the object is a row of          *)
(* NumPixels pixels, a scan position is the index of the pixel it          *)
(* illuminates, and the unitary propagation of a one-pixel field is the    *)
(* field itself.                                                           *)
(***************************************************************************)
\* op.diffraction.patch.fwd: the object pixel under each scan position
PatchFwd(images, positions) ==
    [j \in 1..Len(positions) |-> images[positions[j]]]

\* op.diffraction.patch.adj: scatter-add of the patches into `images`
PatchAdj(patchvals, images, positions) ==
    [p \in DOMAIN images |->
        CAdd(images[p], CSum(patchvals, {j \in 1..Len(positions) : positions[j] = p}))]

\* op.propagation.fwd and op.propagation.adj of a one-pixel field
PropagationFwd(field) == field
PropagationAdj(field) == field

(***************************************************************************)
(* The parallel fabric `comm`.                                             *)
(***************************************************************************)
\* comm.pool.bcast([x]): one replica of x per worker
Bcast(x) == [w \in Workers |-> x]

\* comm.reduce(xs, ...)[0] of per-worker images: the pixelwise sum
ReduceImage(xs) == [p \in Pixels |-> CSum([w \in Workers |-> xs[w][p]], Workers)]

\* comm.reduce(xs, ...)[0] of per-worker scalars
ReduceScalar(xs) == CSum(xs, Workers)

\* comm.reduce(cost, 'cpu'): the sum of the workers' costs of one node
ReduceCostLocal(costs) == ISum(costs, Workers)

\* comm.Allreduce_reduce(cost, 'cpu'): local reduce, then sum over the nodes
AllreduceCost(costsByNode, nodes) ==
    ISum([k \in nodes |-> ReduceCostLocal(costsByNode[k])], nodes)

(***************************************************************************)
(* tike.opt.get_batch / put_batch                                          *)
(***************************************************************************)
get_batch(x, b, n) == [j \in 1..Len(b[n]) |-> x[b[n][j]]]

put_batch(y, x, b, n) ==
    [g \in DOMAIN x |->
        IF \E j \in 1..Len(b[n]) : b[n][j] = g
        THEN y[CHOOSE j \in 1..Len(b[n]) : b[n][j] = g]
        ELSE x[g]]

(***************************************************************************)
(* State of one call of epie, run in step by every node.                   *)
(***************************************************************************)
VARIABLES
    use_mpi,            \* comm.use_mpi
    object_options,     \* the options record; supplied = FALSE stands for None
    probe_options,      \* the options record; supplied = FALSE stands for None
    data,               \* per node and batch: the measured data of the batch
    scan, batches,      \* per node and worker: positions and batch plan
    psi, probe,         \* per node and worker: the replicas
    perm, bi, n,        \* randomizer.permutation(num_batch), its index, batch
    bscan, nearplane,   \* per node and worker
    cost,               \* per node: the local variable `cost` of epie
    patches, step_length, m,
    common_grad_psi, common_grad_probe,
    psi_in, probe_in,   \* history: psi and probe as passed to _update_nearplane
    costs,              \* history: the reduced cost of every batch processed
    probe_swept,        \* history: probe as it stands after the last batch
    result,
    pc, err

epieVars == <<use_mpi, object_options, probe_options, data, scan, batches, psi,
              probe, perm, bi, n, bscan, nearplane, cost, patches, step_length, m,
              common_grad_psi, common_grad_probe, psi_in, probe_in, costs, probe_swept,
              result, pc, err>>

Nodes == IF use_mpi THEN 1..NumNodes ELSE {1}

PsiVals == {Zero, One}
ProbeVals == {Zero, One, Imag}

\* The measured data of a batch, by what _update_wavefront derives from it:
\* `factor` is sqrt(data) / (sqrt(intensity) + 1e-9), `misfit` the cost of one
\* position under op.propagation.cost.
DataCases == {[factor |-> One, misfit |-> 0], [factor |-> Two, misfit |-> 1]}

NoOptions == [supplied |-> FALSE, orthogonality_constraint |-> FALSE]

ProbeOptionsSet ==
    {NoOptions,
     [supplied |-> TRUE, orthogonality_constraint |-> FALSE],
     [supplied |-> TRUE, orthogonality_constraint |-> TRUE]}

ObjectOptionsSet ==
    {[supplied |-> FALSE, positivity_constraint |-> 0, smoothness_constraint |-> 0],
     [supplied |-> TRUE, positivity_constraint |-> 0, smoothness_constraint |-> 0]}

\* randomizer.permutation(num): every order of the batch indices
permutation(num) ==
    {f \in [1..num -> 1..num] : \A a, b \in 1..num : a # b => f[a] # f[b]}

NoCost == [state |-> "None", tuple |-> <<>>, value |-> 0]

epieInit ==
    /\ use_mpi \in BOOLEAN
    /\ object_options \in ObjectOptionsSet
    /\ probe_options \in ProbeOptionsSet
    /\ \E a, b \in DataCases :
          /\ a # b
          /\ data = [k \in Nodes |-> [b_ \in 1..NumBatch |->
                        IF (k + b_) % 2 = 0 THEN a ELSE b]]
    /\ \E la \in 1..MaxShard :
          LET shard(w) == IF w = 1 THEN la ELSE MaxShard + 1 - la
          IN /\ scan = [k \in Nodes |-> [w \in Workers |->
                          [g \in 1..(NumBatch * shard(w)) |->
                              ((g + w + k) % NumPixels) + 1]]]
             /\ batches = [k \in Nodes |-> [w \in Workers |->
                          [b_ \in 1..NumBatch |->
                              [j \in 1..shard(w) |-> (b_ - 1) * shard(w) + j]]]]
    /\ \E c, d \in PsiVals :
          psi = [k \in Nodes |-> [w \in Workers |->
                    [p \in Pixels |-> IF p % 2 = 1 THEN c ELSE d]]]
    /\ \E c \in ProbeVals :
          probe = [k \in Nodes |-> [w \in Workers |->
                    [mm \in Modes |-> IF mm % 2 = 1 THEN c ELSE Imag]]]
    /\ perm \in permutation(NumBatch)
    /\ bi = 1
    /\ n = 0
    /\ bscan = [k \in Nodes |-> [w \in Workers |-> <<>>]]
    /\ nearplane = [k \in Nodes |-> [w \in Workers |-> <<>>]]
    /\ cost = [k \in Nodes |-> NoCost]
    /\ patches = [k \in Nodes |-> [w \in Workers |-> <<>>]]
    /\ step_length = [k \in Nodes |-> One]
    /\ m = 0
    /\ common_grad_psi = [k \in Nodes |-> [w \in Workers |-> [p \in Pixels |-> Zero]]]
    /\ common_grad_probe = [k \in Nodes |-> [w \in Workers |-> Zero]]
    /\ psi_in = psi
    /\ probe_in = probe
    /\ costs = <<>>
    /\ probe_swept = probe
    /\ result = [set |-> FALSE, psi |-> psi, probe |-> probe, cost |-> cost, scan |-> scan]
    /\ pc = "update_wavefront"
    /\ err = "none"

(***************************************************************************)
(* _update_wavefront on one worker.  The rescaling factor                  *)
(* sqrt(data) / (sqrt(intensity) + 1e-9) and the cost are what the batch's  *)
(* data makes them: the divisor is at least 1e-9, so the factor is a       *)
(* finite non-negative real.                                               *)
(***************************************************************************)
update_wavefront(d, varying_probe, scan_w, psi_w) ==
    LET patches_ == PatchFwd(psi_w, scan_w)
        tiled == [j \in 1..Len(scan_w) |->
                    [mm \in Modes |-> CMul(patches_[j], varying_probe[mm])]]
        farplane == PropagationFwd(tiled)
        rescaled == [j \in 1..Len(scan_w) |->
                        [mm \in Modes |-> CMul(farplane[j][mm], d.factor)]]
    IN [nearplane |-> PropagationAdj(rescaled),
        cost |-> d.misfit * Len(scan_w)]

\* _get_patches
get_patches(psi_w, scan_w) == PatchFwd(psi_w, scan_w)

\* The patches argument of _get_nearplane_gradients: those taken before the
\* loop over the modes.
GradPatchesFresh(k, w) == get_patches(psi[k][w], bscan[k][w])
GradPatches(k, w) == patches[k][w]

\* nearplane[..., [m], :, :] - (probe[..., [m], :, :] * patches)
Residual(nearplane_w, patches_w, probe_w, mm) ==
    [j \in 1..Len(patches_w) |->
        CSub(nearplane_w[j][mm], CMul(probe_w[mm], patches_w[j]))]

\* common_grad_psi of _get_nearplane_gradients
grad_psi(nearplane_w, patches_w, psi_w, scan_w, probe_w, mm) ==
    LET diff == Residual(nearplane_w, patches_w, probe_w, mm)
        g == [j \in 1..Len(patches_w) |->
                CDiv(CMul(CConj(probe_w[mm]), diff[j]), max_amplitude(probe_w[mm]))]
    IN PatchAdj(g, [p \in DOMAIN psi_w |-> Zero], scan_w)

\* common_grad_probe of _get_nearplane_gradients
grad_probe(nearplane_w, patches_w, probe_w, mm) ==
    LET diff == Residual(nearplane_w, patches_w, probe_w, mm)
        g == [j \in 1..Len(patches_w) |->
                CDiv(CMul(CConj(patches_w[j]), diff[j]), max_amplitude(patches_w[j]))]
    IN CSum(g, 1..Len(patches_w))

\* The return statement of _get_nearplane_gradients reads both locals; one
\* that its branch never bound raises UnboundLocalError.
GradientsReturn(recover_psi, recover_probe) ==
    IF recover_psi /\ recover_probe THEN "none" ELSE "UnboundLocalError"

recover_psi == object_options.supplied
recover_probe == probe_options.supplied

\* step_length /= scan_[0].shape[0]
StepDivisor(scan_) == Len(scan_[1])

\* psi[0] += step_length * common_grad_psi
AddImage(image, step, grad) ==
    [p \in DOMAIN image |-> CAdd(image[p], CMul(step, grad[p]))]

\* psi = comm.pool.bcast([psi[0]]) after the in-place update of psi[0]
SyncPsiNone(replicas, updated) == [replicas EXCEPT ![1] = updated]
SyncPsi(replicas, updated) == Bcast(updated)

\* probe = comm.pool.bcast([probe[0]]) after the in-place update of probe[0]
SyncProbe(replicas, updated) == Bcast(updated)

(***************************************************************************)
(* epie, lines 30-46: the next batch of the permutation and its wavefront. *)
(***************************************************************************)
UpdateWavefront ==
    /\ pc = "update_wavefront"
    /\ LET b_ == perm[bi]
           bs == [k \in Nodes |-> [w \in Workers |->
                    get_batch(scan[k][w], batches[k][w], b_)]]
           out == [k \in Nodes |-> [w \in Workers |->
                    update_wavefront(data[k][b_], probe[k][w], bs[k][w], psi[k][w])]]
       IN /\ n' = b_
          /\ bscan' = bs
          /\ nearplane' = [k \in Nodes |-> [w \in Workers |-> out[k][w].nearplane]]
          /\ cost' = [k \in Nodes |->
                        [state |-> "tuple",
                         tuple |-> [w \in Workers |-> out[k][w].cost],
                         value |-> 0]]
    /\ pc' = "reduce_cost"
    /\ UNCHANGED <<gsVars, eigVars, probe_swept, use_mpi, object_options, probe_options, data, scan, batches, psi,
                   probe, perm, bi, patches, step_length, m, common_grad_psi,
                   common_grad_probe, psi_in, probe_in, costs, result, err>>

\* epie, lines 48-51
ReduceCost ==
    /\ pc = "reduce_cost"
    /\ cost' = [k \in Nodes |->
                  [state |-> "reduced",
                   tuple |-> <<>>,
                   value |-> IF use_mpi
                             THEN AllreduceCost([kk \in Nodes |-> cost[kk].tuple], Nodes)
                             ELSE ReduceCostLocal(cost[k].tuple)]]
    /\ costs' = Append(costs, [k \in Nodes |-> cost'[k].value])
    /\ pc' = "get_patches"
    /\ UNCHANGED <<gsVars, eigVars, probe_swept, use_mpi, object_options, probe_options, data, scan, batches, psi,
                   probe, perm, bi, n, bscan, nearplane, patches, step_length, m,
                   common_grad_psi, common_grad_probe, psi_in, probe_in, result, err>>

\* _update_nearplane, lines 164-165
GetPatches ==
    /\ pc = "get_patches"
    /\ patches' = [k \in Nodes |-> [w \in Workers |->
                      get_patches(psi[k][w], bscan[k][w])]]
    /\ step_length' = [k \in Nodes |-> CDiv(One, Cx(StepDivisor(bscan[k]), 0, 1))]
    /\ m' = 1
    /\ psi_in' = psi
    /\ probe_in' = probe
    /\ pc' = "gradients"
    /\ UNCHANGED <<gsVars, eigVars, probe_swept, use_mpi, object_options, probe_options, data, scan, batches, psi,
                   probe, perm, bi, n, bscan, nearplane, cost, common_grad_psi,
                   common_grad_probe, costs, result, err>>

\* _update_nearplane, lines 169-180: the map of _get_nearplane_gradients
Gradients ==
    /\ pc = "gradients"
    /\ LET e == GradientsReturn(recover_psi, recover_probe)
       IN IF e # "none"
          THEN /\ err' = e
               /\ pc' = "raised"
               /\ UNCHANGED <<common_grad_psi, common_grad_probe>>
          ELSE /\ common_grad_psi' = [k \in Nodes |-> [w \in Workers |->
                      grad_psi(nearplane[k][w], GradPatches(k, w), psi[k][w],
                               bscan[k][w], probe[k][w], m)]]
               /\ common_grad_probe' = [k \in Nodes |-> [w \in Workers |->
                      grad_probe(nearplane[k][w], GradPatches(k, w), probe[k][w], m)]]
               /\ pc' = "apply_psi"
               /\ UNCHANGED err
    /\ UNCHANGED <<gsVars, eigVars, probe_swept, use_mpi, object_options, probe_options, data, scan, batches, psi,
                   probe, perm, bi, n, bscan, nearplane, cost, patches, step_length,
                   m, psi_in, probe_in, costs, result>>

\* _update_nearplane, lines 182-185
ApplyPsi ==
    /\ pc = "apply_psi"
    /\ psi' = IF recover_psi
              THEN [k \in Nodes |->
                      SyncPsi(psi[k], AddImage(psi[k][1], step_length[k],
                                               ReduceImage(common_grad_psi[k])))]
              ELSE psi
    /\ pc' = "apply_probe"
    /\ UNCHANGED <<gsVars, eigVars, probe_swept, use_mpi, object_options, probe_options, data, scan, batches,
                   probe, perm, bi, n, bscan, nearplane, cost, patches, step_length,
                   m, common_grad_psi, common_grad_probe, psi_in, probe_in, costs,
                   result, err>>

\* _update_nearplane, lines 187-190, and the end of the loop body
ApplyProbe ==
    /\ pc = "apply_probe"
    /\ probe' = IF recover_probe
                THEN [k \in Nodes |->
                        SyncProbe(probe[k],
                            [probe[k][1] EXCEPT ![m] =
                                CAdd(@, CMul(step_length[k],
                                             ReduceScalar(common_grad_probe[k])))])]
                ELSE probe
    /\ IF m < NumModes
       THEN m' = m + 1 /\ pc' = "gradients"
       ELSE m' = m /\ pc' = "put_batch"
    /\ UNCHANGED <<gsVars, eigVars, probe_swept, use_mpi, object_options, probe_options, data, scan, batches,
                   psi, perm, bi, n, bscan, nearplane, cost, patches, step_length,
                   common_grad_psi, common_grad_probe, psi_in, probe_in, costs,
                   result, err>>

\* epie, lines 72-78, and the end of the loop over the batches
PutBatch ==
    /\ pc = "put_batch"
    /\ scan' = [k \in Nodes |-> [w \in Workers |->
                  put_batch(bscan[k][w], scan[k][w], batches[k][w], n)]]
    /\ IF bi < NumBatch
       THEN bi' = bi + 1 /\ pc' = "update_wavefront"
       ELSE bi' = bi /\ pc' = "orthogonalize"
    /\ UNCHANGED <<gsVars, eigVars, probe_swept, use_mpi, object_options, probe_options, data, batches, psi,
                   probe, perm, n, bscan, nearplane, cost, patches, step_length, m,
                   common_grad_psi, common_grad_probe, psi_in, probe_in, costs,
                   result, err>>

\* The call comm.pool.map(f, ..., **kwargs) hands every keyword to f; a
\* keyword that f does not declare raises TypeError.
orthogonalize_eig_params == {"x"}

CallKeywords(params, kwargs) ==
    IF kwargs \subseteq params THEN "none" ELSE "TypeError"

\* One worker's probe as an array of modes of one pixel each, and back.
AsModes(probe_w) == [mm \in DOMAIN probe_w |-> <<probe_w[mm]>>]
AsProbe(x) == [mm \in DOMAIN x |-> x[mm][1]]

\* epie, lines 80-81
Orthogonalize ==
    /\ pc = "orthogonalize"
    /\ probe_swept' = probe
    /\ IF probe_options.supplied /\ probe_options.orthogonality_constraint
       THEN LET e == CallKeywords(orthogonalize_eig_params, {"xp"})
            IN IF e # "none"
               THEN err' = e /\ pc' = "raised" /\ UNCHANGED probe
               ELSE /\ probe' \in
                         {f \in [Nodes -> [Workers ->
                                  UNION {{AsProbe(o) :
                                            o \in orthogonalize_eig(AsModes(probe[k][w]))} :
                                         k \in Nodes, w \in Workers}]] :
                             \A k \in Nodes : \A w \in Workers :
                                 AsModes(f[k][w]) \in
                                     orthogonalize_eig(AsModes(probe[k][w]))}
                    /\ pc' = "regularize"
                    /\ UNCHANGED err
       ELSE pc' = "regularize" /\ UNCHANGED <<probe, err>>
    /\ UNCHANGED <<gsVars, eigVars, use_mpi, object_options, probe_options, data,
                   scan, batches, psi, perm, bi, n, bscan, nearplane, cost, patches,
                   step_length, m, common_grad_psi, common_grad_probe, psi_in,
                   probe_in, costs, result>>

\* positivity_constraint(psi, r) and smoothness_constraint(psi, a) at the
\* strengths r = 0 and a = 0 of the options
positivity_constraint(image, r) == image
smoothness_constraint(image, a) == image

\* epie, lines 83-90
Regularize ==
    /\ pc = "regularize"
    /\ psi' = IF object_options.supplied
              THEN [k \in Nodes |-> [w \in Workers |->
                      smoothness_constraint(
                          positivity_constraint(psi[k][w],
                                                object_options.positivity_constraint),
                          object_options.smoothness_constraint)]]
              ELSE psi
    /\ pc' = "return"
    /\ UNCHANGED <<gsVars, eigVars, probe_swept, use_mpi, object_options, probe_options, data,
                   scan, batches, probe, perm, bi, n, bscan, nearplane, cost,
                   patches, step_length, m, common_grad_psi, common_grad_probe,
                   psi_in, probe_in, costs, result, err>>

\* epie, lines 92-105
Return ==
    /\ pc = "return"
    /\ result' = [set |-> TRUE, psi |-> psi, probe |-> probe, cost |-> cost,
                  scan |-> scan]
    /\ pc' = "done"
    /\ UNCHANGED <<gsVars, eigVars, probe_swept, use_mpi, object_options, probe_options, data,
                   scan, batches, psi, probe, perm, bi, n, bscan, nearplane, cost,
                   patches, step_length, m, common_grad_psi, common_grad_probe,
                   psi_in, probe_in, costs, err>>

(***************************************************************************)
(* orthogonalize_gs, step by step.                                         *)
(***************************************************************************)
\* lines 49-58
GsCheckNdim ==
    /\ gpc = "check_ndim"
    /\ IF gndim < 1
       THEN gerr' = "ValueError" /\ gpc' = "raised"
       ELSE gerr' = gerr /\ gpc' = (IF GsModes >= 2 THEN "loop" ELSE "assert")
    /\ UNCHANGED <<gx, gndim, gdebug, gi, eigVars, epieVars>>

\* lines 60-64, one iteration
GsStep ==
    /\ gpc = "loop"
    /\ gx' = gs_step(gx, gi)
    /\ IF gi < GsModes
       THEN gi' = gi + 1 /\ gpc' = gpc
       ELSE gi' = gi /\ gpc' = "assert"
    /\ UNCHANGED <<gndim, gdebug, gerr, eigVars, epieVars>>

\* lines 66-77
GsAssert ==
    /\ gpc = "assert"
    /\ IF gdebug /\ ~gs_orthogonal(gx)
       THEN gerr' = "AssertionError" /\ gpc' = "raised"
       ELSE gerr' = gerr /\ gpc' = "done"
    /\ UNCHANGED <<gx, gndim, gdebug, gi, eigVars, epieVars>>

(***************************************************************************)
(* orthogonalize_eig, step by step.                                        *)
(***************************************************************************)
\* lines 94-101
EigGram ==
    /\ epc = "gram"
    /\ eA' = gram(ex)
    /\ epc' = "eigh"
    /\ UNCHANGED <<ex, evalues, vectors, x_new, ei, ej, gsVars, epieVars>>

\* lines 103-109
EigEigh ==
    /\ epc = "eigh"
    /\ \E dec \in eigh(eA) :
          /\ evalues' = dec.values
          /\ vectors' = dec.vectors
    /\ x_new' = zeros_like(ex)
    /\ ei' = 1
    /\ ej' = 1
    /\ epc' = "accumulate"
    /\ UNCHANGED <<ex, eA, gsVars, epieVars>>

\* lines 110-114, one pass of the inner loop body
EigAccumulate ==
    /\ epc = "accumulate"
    /\ x_new' = accumulate(x_new, vectors, ex, ei, ej)
    /\ IF ej < EigModes
       THEN ej' = ej + 1 /\ ei' = ei /\ epc' = epc
       ELSE IF ei < EigModes
            THEN ej' = 1 /\ ei' = ei + 1 /\ epc' = epc
            ELSE ej' = ej /\ ei' = ei /\ epc' = "assert"
    /\ UNCHANGED <<ex, eA, evalues, vectors, gsVars, epieVars>>

\* lines 115-117: x_new has the shape of x, so the assertion passes
EigReturn ==
    /\ epc = "assert"
    /\ DOMAIN x_new = DOMAIN ex
    /\ \A k \in DOMAIN x_new : DOMAIN x_new[k] = DOMAIN ex[k]
    /\ epc' = "done"
    /\ UNCHANGED <<ex, eA, evalues, vectors, x_new, ei, ej, gsVars, epieVars>>

(***************************************************************************)
(* The specifications.                                                     *)
(***************************************************************************)
vars == <<epieVars, gsVars, eigVars>>

epieIdle ==
    /\ use_mpi = FALSE
    /\ object_options = 0
    /\ probe_options = 0
    /\ data = 0
    /\ scan = 0
    /\ batches = 0
    /\ psi = 0
    /\ probe = 0
    /\ perm = 0
    /\ bi = 0
    /\ n = 0
    /\ bscan = 0
    /\ nearplane = 0
    /\ cost = 0
    /\ patches = 0
    /\ step_length = 0
    /\ m = 0
    /\ common_grad_psi = 0
    /\ common_grad_probe = 0
    /\ psi_in = 0
    /\ probe_in = 0
    /\ costs = 0
    /\ probe_swept = 0
    /\ result = 0
    /\ pc = "idle"
    /\ err = "none"

\* One call of epie.
Init == epieInit /\ gsIdle /\ eigIdle

Next ==
    \/ UpdateWavefront
    \/ ReduceCost
    \/ GetPatches
    \/ Gradients
    \/ ApplyPsi
    \/ ApplyProbe
    \/ PutBatch
    \/ Orthogonalize
    \/ Regularize
    \/ Return

Spec == Init /\ [][Next]_vars

\* One call of orthogonalize_gs.
InitGs == gsInit /\ epieIdle /\ eigIdle

NextGs == GsCheckNdim \/ GsStep \/ GsAssert

SpecGs == InitGs /\ [][NextGs]_vars

\* One call of orthogonalize_eig.
InitEig == eigInit /\ epieIdle /\ gsIdle

NextEig == EigGram \/ EigEigh \/ EigAccumulate \/ EigReturn

SpecEig == InitEig /\ [][NextEig]_vars

(***************************************************************************)
(* The claims.                                                             *)
(***************************************************************************)
ReplicasFinite ==
    \A k \in Nodes : \A w \in Workers :
        /\ \A p \in Pixels : Finite(psi[k][w][p])
        /\ \A mm \in Modes : Finite(probe[k][w][mm])
        /\ \A j \in DOMAIN nearplane[k][w] : \A mm \in Modes :
              Finite(nearplane[k][w][j][mm])

\* C1: _update_nearplane called with recover_psi = False completes and
\* returns the object it was passed, on every worker; called with
\* recover_probe = False it completes and returns the probe it was passed.
C1_DisabledRecoveryReturnsInput ==
    /\ ~recover_psi =>
          /\ err # "UnboundLocalError"
          /\ pc = "put_batch" => psi = psi_in
    /\ ~recover_probe =>
          /\ err # "UnboundLocalError"
          /\ pc = "put_batch" => probe = probe_in

\* C2: for every input with at least two modes and ndim >= 1, the modes
\* orthogonalize_gs leaves are pairwise orthogonal within 1e-5 and its
\* assertion does not fail.
C2_GsOutputOrthogonal ==
    gndim >= 1 /\ gpc \in {"done", "raised"} =>
        /\ gerr # "AssertionError"
        /\ gs_orthogonal(gx)

\* C3: with probe_options.orthogonality_constraint enabled the end-of-sweep
\* step completes, and the returned probe is, on every worker, an output of
\* orthogonalize_eig for that worker's probe after the last batch.
C3_SweepEndOrthogonalizes ==
    probe_options.supplied /\ probe_options.orthogonality_constraint =>
        /\ err # "TypeError"
        /\ pc = "done" =>
              \A k \in Nodes : \A w \in Workers :
                  AsModes(result.probe[k][w]) \in
                      orthogonalize_eig(AsModes(probe_swept[k][w]))

\* C4: whenever the per-worker gradients of a mode are about to be computed,
\* and when _update_nearplane returns, all workers of a node hold the same
\* object and the same probe.
C4_ReplicasAgree ==
    pc \in {"gradients", "put_batch"} =>
        \A k \in Nodes : \A w \in Workers :
            /\ psi[k][w] = psi[k][1]
            /\ probe[k][w] = probe[k][1]

\* C4 witness: with two or more workers, the gradients of a later mode are
\* about to be computed after an update changed the object.
C4_Witness ==
    /\ NumWorkers >= 2
    /\ pc = "gradients"
    /\ m >= 2
    /\ psi[1][1] # psi_in[1][1]
    /\ psi[1][2] = psi[1][1]

\* C5: under use_mpi the gradients applied are summed over the workers of
\* all nodes, so after every batch all nodes hold the same object and probe.
C5_NodesAgree ==
    use_mpi /\ pc = "put_batch" /\ ReplicasFinite =>
        \A k \in Nodes : psi[k] = psi[1] /\ probe[k] = probe[1]

\* C7: after a sweep over two or more batches the cost in the result is the
\* accumulation of the reduced costs of all the batches of the sweep.
C7_CostAccumulated ==
    pc = "done" /\ NumBatch >= 2 =>
        \A k \in Nodes :
            result.cost[k].value =
                ISum([b_ \in 1..Len(costs) |-> costs[b_][k]], 1..Len(costs))

\* The gradients of mode mm on worker w of node k, from given patches.
GradientsFrom(patches_w, k, w, mm) ==
    [psi |-> grad_psi(nearplane[k][w], patches_w, psi[k][w], bscan[k][w],
                      probe[k][w], mm),
     probe |-> grad_probe(nearplane[k][w], patches_w, probe[k][w], mm)]

\* C8 as stated: the gradients of every mode after the first are computed
\* from patches of the object as updated by the earlier modes of the batch.
C8_GradientsUseUpdatedObject ==
    pc = "apply_psi" /\ m >= 2 /\ ReplicasFinite =>
        \A k \in Nodes : \A w \in Workers :
            LET g == GradientsFrom(get_patches(psi[k][w], bscan[k][w]), k, w, m)
            IN /\ common_grad_psi[k][w] = g.psi
               /\ common_grad_probe[k][w] = g.probe

\* C8 amended: the gradients of every mode are computed from the patches of
\* the object as it was when _update_nearplane was entered.
C8_GradientsUseEntryObject ==
    pc = "apply_psi" =>
        \A k \in Nodes : \A w \in Workers :
            LET g == GradientsFrom(get_patches(psi_in[k][w], bscan[k][w]), k, w, m)
            IN /\ common_grad_psi[k][w] = g.psi
               /\ common_grad_probe[k][w] = g.probe

\* C8 witness: the gradients of a later mode have been computed, finite,
\* after the earlier modes changed the object under a scan position.
C8_Witness ==
    /\ pc = "apply_psi"
    /\ m >= 2
    /\ ReplicasFinite
    /\ \E k \in Nodes : \E w \in Workers :
          /\ get_patches(psi[k][w], bscan[k][w]) # get_patches(psi_in[k][w], bscan[k][w])
          /\ \E p \in Pixels : ~IsZero(common_grad_psi[k][w][p])

\* C9: the step is step_length / N with N the number of scan positions of
\* the batch over all the workers' shards.
C9_StepScaledByBatchSize ==
    pc \in {"gradients", "apply_psi", "apply_probe"} =>
        \A k \in Nodes :
            step_length[k] =
                CDiv(One, Cx(ISum([w \in Workers |-> Len(bscan[k][w])], Workers), 0, 1))

\* C10: no division by zero: from finite inputs, a zero probe mode or a zero
\* object patch still yields finite gradients.
C10_GradientsFinite ==
    pc = "apply_psi" /\ ReplicasFinite =>
        \A k \in Nodes : \A w \in Workers :
            /\ \A p \in Pixels : Finite(common_grad_psi[k][w][p])
            /\ Finite(common_grad_probe[k][w])

\* The squared norm of a mode.
Power(v) == VDot(v, v)

\* C6: orthogonalize_eig returns an array of the input's shape whose mode k
\* is the combination of the input modes weighted by the eigenvector of the
\* k-th largest eigenvalue, so the output modes are in order of
\* non-increasing power.
C6_ModesByDescendingEigenvalue ==
    epc = "done" =>
        /\ DOMAIN x_new = DOMAIN ex
        /\ \A k \in DOMAIN x_new :
              /\ DOMAIN x_new[k] = DOMAIN ex[k]
              /\ x_new[k] =
                    [p \in DOMAIN ex[k] |->
                        CSum([i \in DOMAIN ex |->
                                CMul(vectors[i][EigModes + 1 - k], ex[i][p])],
                             DOMAIN ex)]
              /\ Power(x_new[k]) =
                    CMul(evalues[EigModes + 1 - k],
                         Power([i \in DOMAIN ex |-> vectors[i][EigModes + 1 - k]]))
              /\ k < EigModes => RLeq(Power(x_new[k + 1]), Power(x_new[k]))

\* C6 witness: a finished call whose eigenvalues differ, so that the order
\* of the output modes matters.
C6_Witness ==
    /\ epc = "done"
    /\ evalues[1] # evalues[EigModes]
    /\ ~IsZero(Power(x_new[1]))

====
